---- MODULE Spec2Model ----
(***************************************************************************)
(* GridDFS: the coordinator's metadata store (files, blocks, block         *)
(* locations, upload sessions, datanodes) with its request handlers and    *)
(* its two consumers, for the message-bus variant (src/namenode/services,  *)
(* src/namenode/api), that variant's storage node worker with its          *)
(* admission policy, its heartbeat service and the broker's direct         *)
(* exchange (src/datanode/worker.py, src/datanode/storage_policy.py,       *)
(* src/datanode/heartbeat.py, src/shared/rabbitmq_config.py), and the gRPC *)
(* variant's name node, data nodes and client (src/namenode/main.py,       *)
(* src/datanode/server.py, src/client/client.py).                          *)
(***************************************************************************)
EXTENDS Integers, Sequences, FiniteSets, TLC

\* ------------------------------------------------------------------ bounds
\* Largest file, in bytes, a client uploads.
MaxFileSize == 5
\* config.BLOCK_SIZE, scaled down (the default is 64 MiB).
BLOCK_SIZE == 2
\* Number of create-upload-plan calls that get past the duplicate check.
MaxUploads == 2
\* Number of block ids generate() hands out.
MaxBlocks == 4
\* Largest reading of the clock.
MaxTime == 3
\* config.HEARTBEAT_INTERVAL, scaled down (the default is 30 s).
HEARTBEAT_INTERVAL == 1
\* Largest storage_used a heartbeat reports.
MaxUsed == 1
\* config.STORAGE_CAPACITY, scaled down (the default is 10 GiB).
STORAGE_CAPACITY == 5
\* StoragePolicy.min_free_space_ratio, 0.1, in tenths.
MIN_FREE_SPACE_TENTHS == 1
\* Largest number of free bytes statvfs reports for the file system that holds
\* STORAGE_PATH.
MaxAvailable == 3
\* config.MAX_UPLOAD_SIZE, scaled down (the default is 10 GiB).
MAX_UPLOAD_SIZE == 4
\* Number of put_file calls (gRPC variant).
MaxPuts == 2
\* Number of register_datanode calls (gRPC variant).
MaxRegistrations == 2
\* The window of put_metadata for an active data node, 30 s, in ticks of the
\* 10 s heartbeat interval of the gRPC data node.
GRPC_ACTIVE_WINDOW == 3
\* block_config.BLOCK_SIZE_MB; the gRPC variant's BLOCK_SIZE is BLOCK_SIZE_MB
\* megabytes, so a megabyte is BLOCK_SIZE \div BLOCK_SIZE_MB bytes here.
BLOCK_SIZE_MB == 1

Users == {1, 2}
PathA == <<"/", "a">>
PathB == <<"/", "b">>
Paths == {PathA, PathB}
Nodes == {"dn1", "dn2"}
Bytes == {0, 1}
ConfirmStatuses == {"success", "insufficient_space", "declined", "error"}
GUsers == {"alice", "bob"}
GNames == {"f.txt"}
Hosts == {"datanode1", "datanode2"}

\* File contents: the two alternating byte strings of each length, and of
\* those the ones that make one, two and three blocks of two bytes.
Pattern(n, k) == [i \in 1..n |-> (i + k) % 2]
AllContents == {Pattern(n, k) : n \in 0..MaxFileSize, k \in Bytes}
SomeContents == {Pattern(n, 0) : n \in {1, 3, 5} \cap (0..MaxFileSize)}
GContents == {Pattern(3, 0), Pattern(3, 1)}

\* File contents whose bytes change every second byte, so that neighbouring
\* blocks differ, next to the alternating ones.
Ramp(n) == [i \in 1..n |-> ((i - 1) \div 2) % 2]
MixedContents == {Ramp(n) : n \in 1..MaxFileSize} \cup {Pattern(n, 1) : n \in 1..MaxFileSize}

None == [none |-> TRUE]

VARIABLES
    files,        \* table files: rows [id, filename, file_path, user_id, file_size, file_hash]
    blocks,       \* table blocks: rows [block_id, file_id, block_index, block_size, block_hash]
    locations,    \* table block_locations: rows [block_id, datanode_id, status, storage_path]
    sessions,     \* table upload_sessions: rows [upload_id, user_id, file_path, total_blocks, completed_blocks, status]
    datanodes,    \* table datanodes: node_id -> [status, storage_used, storage_capacity, last_heartbeat]
    published,    \* store_block messages published to the fanout exchange
    nextFileId,   \* files.id autoincrement
    nextBlockId,  \* next block id generate() returns
    nextUploadId, \* next upload id generate() returns
    owner,        \* history: upload_id -> id of the file the same call created
    last,         \* the last HTTP request the coordinator answered, and its status code
    handled,      \* history: the last bus message a consumer processed, where recorded
    now           \* the clock (datetime.utcnow(), datetime.now())

\* The gRPC variant.
VARIABLES
    gFiles,       \* sqlite table files: rows [username, filename, metadata], in rowid order
    gNodes,       \* sqlite table datanodes: rows [host, last_heartbeat], the row id is the index
    gId,          \* host -> the datanode id its running process got from /register_datanode
    gUp,          \* the hosts whose data node process is serving
    gStore,       \* host -> (block id -> bytes): the files under STORAGE_DIR
    gOut,         \* what the last get_file did
    gPuts         \* history: the put_file calls made so far, in order

\* The storage nodes of the message-bus variant.
VARIABLES
    disk,         \* node -> (block id -> bytes): the files under STORAGE_PATH
    delivered,    \* history: the last store_block delivery and what the worker did with it
    writing,      \* node -> the store_block message whose block file is open for writing, or None
    responded,    \* history: the last request_block a worker handled and what it published
    beat          \* node -> its heartbeat service: running, where the thread stands, the last attempts

store == <<files, blocks, locations, sessions>>
counters == <<nextFileId, nextBlockId, nextUploadId>>
busVars == <<files, blocks, locations, sessions, datanodes, published,
             nextFileId, nextBlockId, nextUploadId, owner, last, handled>>
workerVars == <<disk, delivered, writing, responded, beat>>
grpcVars == <<gFiles, gNodes, gId, gUp, gStore, gOut, gPuts>>
vars == <<busVars, workerVars, grpcVars, now>>

\* ------------------------------------------------------------- primitives
Min(a, b) == IF a < b THEN a ELSE b

\* hashlib.sha256(data).hexdigest(), taken to be collision free.
Sha256(data) == <<"sha256", data>>

\* base64.b64encode / b64decode
B64Encode(data) == [b64 |-> data]
B64Decode(text) == text.b64

\* The floor of a / b: the count that leaves out a short last block.
Floor(a, b) == a \div b

\* math.ceil(a / b) for b > 0
Ceil(a, b) == (a + b - 1) \div b

\* f.seek(pos); f.read(n)
ReadAt(data, pos, n) == SubSeq(data, pos + 1, Min(pos + n, Len(data)))

\* os.path.basename
RECURSIVE Basename(_)
Basename(path) ==
    IF path = <<>> THEN <<>>
    ELSE IF path[Len(path)] = "/" THEN <<>>
    ELSE Basename(SubSeq(path, 1, Len(path) - 1)) \o <<path[Len(path)]>>

\* ----------------------------------------------- FileService (coordinator)
RECURSIVE ReadBlocks(_, _, _, _, _)
ReadBlocks(data, pos, i, total_blocks, first_id) ==
    IF i >= total_blocks THEN <<>>
    ELSE LET block_data == ReadAt(data, pos, BLOCK_SIZE)
         IN  <<[block_id    |-> first_id + i,
                block_index |-> i,
                block_size  |-> Len(block_data),
                block_hash  |-> Sha256(block_data),
                block_data  |-> block_data]>>
             \o ReadBlocks(data, pos + Len(block_data), i + 1, total_blocks, first_id)

CalculateBlocksInfo(data, first_id) ==
    ReadBlocks(data, 0, 0, Ceil(Len(data), BLOCK_SIZE), first_id)

FileOf(user_id, file_path) ==
    {f \in files : f.user_id = user_id /\ f.file_path = file_path}

BlocksOfFile(file_id) == {b \in blocks : b.file_id = file_id}

NewBlockRows(blocks_info, file_id) ==
    {[block_id    |-> blocks_info[k].block_id,
      file_id     |-> file_id,
      block_index |-> blocks_info[k].block_index,
      block_size  |-> blocks_info[k].block_size,
      block_hash  |-> blocks_info[k].block_hash] : k \in 1..Len(blocks_info)}

\* Messages whose bytes are read at block_index times the size of the block
\* itself.
StoreBlockMessagesAtOwnSize(upload_id, rows, data) ==
    {[message_type |-> "store_block",
      block_id     |-> b.block_id,
      block_data   |-> B64Encode(ReadAt(data, b.block_index * b.block_size, b.block_size)),
      block_hash   |-> b.block_hash,
      upload_id    |-> upload_id,
      block_index  |-> b.block_index,
      block_size   |-> b.block_size] : b \in rows}

\* get_blocks_for_distribution + distribute_blocks: one store_block message
\* per block row of the file, the bytes read back from the temporary file.
StoreBlockMessages(upload_id, rows, data) ==
    {[message_type |-> "store_block",
      block_id     |-> b.block_id,
      block_data   |-> B64Encode(ReadAt(data, b.block_index * BLOCK_SIZE, b.block_size)),
      block_hash   |-> b.block_hash,
      upload_id    |-> upload_id,
      block_index  |-> b.block_index,
      block_size   |-> b.block_size] : b \in rows}

\* POST /files/upload/plan. For a file without blocks (size 0) the session and
\* the file are committed, get_blocks_for_distribution raises ValueError and
\* the route answers 400.
CreateUploadPlan(user_id, file_path, data) ==
    IF FileOf(user_id, file_path) # {}
    THEN /\ last' = [op |-> "create_upload_plan", code |-> 400]
         /\ UNCHANGED <<store, datanodes, published, counters, owner, now, handled, workerVars, grpcVars>>
    ELSE LET blocks_info  == CalculateBlocksInfo(data, nextBlockId)
             total_blocks == Len(blocks_info)
             rows         == NewBlockRows(blocks_info, nextFileId)
         IN  /\ nextFileId <= MaxUploads
             /\ nextBlockId + total_blocks - 1 <= MaxBlocks
             /\ sessions' = sessions \cup
                    {[upload_id        |-> nextUploadId,
                      user_id          |-> user_id,
                      file_path        |-> file_path,
                      total_blocks     |-> total_blocks,
                      completed_blocks |-> 0,
                      status           |-> "pending"]}
             /\ files' = files \cup
                    {[id        |-> nextFileId,
                      filename  |-> Basename(file_path),
                      file_path |-> file_path,
                      user_id   |-> user_id,
                      file_size |-> Len(data),
                      file_hash |-> Sha256(data)]}
             /\ blocks' = blocks \cup rows
             /\ published' = published \cup StoreBlockMessages(nextUploadId, rows, data)
             /\ nextFileId' = nextFileId + 1
             /\ nextBlockId' = nextBlockId + total_blocks
             /\ nextUploadId' = nextUploadId + 1
             /\ owner' = [id \in DOMAIN owner \cup {nextUploadId} |->
                             IF id = nextUploadId THEN nextFileId ELSE owner[id]]
             /\ last' = [op   |-> "create_upload_plan",
                         code |-> IF total_blocks = 0 THEN 400 ELSE 200]
             /\ UNCHANGED <<locations, datanodes, now, handled, workerVars, grpcVars>>

\* POST /files/upload/plan when the metadata store fails in the middle of
\* create_upload_session: the session, the file and the blocks are committed
\* one after the other, `commits` of the three commits succeed, the next one
\* raises, db.rollback() undoes what was not committed and the route answers
\* 500. Nothing is published.
CreateUploadPlanFailing(user_id, file_path, data, commits) ==
    /\ FileOf(user_id, file_path) = {}
    /\ commits \in 0..2
    /\ nextFileId <= MaxUploads
    /\ nextUploadId <= MaxUploads
    /\ sessions' = IF commits >= 1
                   THEN sessions \cup
                          {[upload_id        |-> nextUploadId,
                            user_id          |-> user_id,
                            file_path        |-> file_path,
                            total_blocks     |-> Len(CalculateBlocksInfo(data, nextBlockId)),
                            completed_blocks |-> 0,
                            status           |-> "pending"]}
                   ELSE sessions
    /\ files' = IF commits >= 2
                THEN files \cup
                       {[id        |-> nextFileId,
                         filename  |-> Basename(file_path),
                         file_path |-> file_path,
                         user_id   |-> user_id,
                         file_size |-> Len(data),
                         file_hash |-> Sha256(data)]}
                ELSE files
    /\ nextUploadId' = IF commits >= 1 THEN nextUploadId + 1 ELSE nextUploadId
    /\ nextFileId' = IF commits >= 2 THEN nextFileId + 1 ELSE nextFileId
    /\ owner' = IF commits >= 1
                THEN [id \in DOMAIN owner \cup {nextUploadId} |->
                        IF id = nextUploadId
                        THEN (IF commits >= 2 THEN nextFileId ELSE 0)
                        ELSE owner[id]]
                ELSE owner
    /\ last' = [op |-> "create_upload_plan", code |-> 500]
    /\ UNCHANGED <<blocks, locations, datanodes, published, nextBlockId, now,
                   handled, workerVars, grpcVars>>

\* POST /files/upload/plan when the fan-out fails: create_upload_session has
\* committed the session, the file and the blocks, distribute_blocks publishes
\* the first `sent` blocks (none when the connection to the broker fails),
\* raises, and the route answers 500.
CreateUploadPlanUnpublished(user_id, file_path, data, sent) ==
    LET blocks_info  == CalculateBlocksInfo(data, nextBlockId)
        total_blocks == Len(blocks_info)
        rows         == NewBlockRows(blocks_info, nextFileId)
    IN  /\ FileOf(user_id, file_path) = {}
        /\ sent \in 0..(total_blocks - 1)
        /\ nextFileId <= MaxUploads
        /\ nextBlockId + total_blocks - 1 <= MaxBlocks
        /\ sessions' = sessions \cup
               {[upload_id        |-> nextUploadId,
                 user_id          |-> user_id,
                 file_path        |-> file_path,
                 total_blocks     |-> total_blocks,
                 completed_blocks |-> 0,
                 status           |-> "pending"]}
        /\ files' = files \cup
               {[id        |-> nextFileId,
                 filename  |-> Basename(file_path),
                 file_path |-> file_path,
                 user_id   |-> user_id,
                 file_size |-> Len(data),
                 file_hash |-> Sha256(data)]}
        /\ blocks' = blocks \cup rows
        /\ published' = published \cup
               StoreBlockMessages(nextUploadId, {b \in rows : b.block_index < sent}, data)
        /\ nextFileId' = nextFileId + 1
        /\ nextBlockId' = nextBlockId + total_blocks
        /\ nextUploadId' = nextUploadId + 1
        /\ owner' = [id \in DOMAIN owner \cup {nextUploadId} |->
                        IF id = nextUploadId THEN nextFileId ELSE owner[id]]
        /\ last' = [op |-> "create_upload_plan", code |-> 500]
        /\ UNCHANGED <<locations, datanodes, now, handled, workerVars, grpcVars>>

\* A delete without the cascade from blocks to block_locations.
DeleteFileKeepLocations(user_id, file_path) ==
    LET found == FileOf(user_id, file_path)
    IN  IF found = {}
        THEN /\ last' = [op |-> "delete_file", code |-> 404]
             /\ UNCHANGED <<store, datanodes, published, counters, owner, now, handled, workerVars, grpcVars>>
        ELSE LET gone == {b \in blocks : \E f \in found : b.file_id = f.id}
             IN  /\ files' = files \ found
                 /\ blocks' = blocks \ gone
                 /\ last' = [op |-> "delete_file", code |-> 200]
                 /\ UNCHANGED <<locations, sessions, datanodes, published, counters,
                                owner, now, handled, workerVars, grpcVars>>

\* DELETE /files/delete: the row goes with its blocks and their locations
\* (cascade="all, delete-orphan", ondelete="CASCADE").
DeleteFile(user_id, file_path) ==
    LET found == FileOf(user_id, file_path)
    IN  IF found = {}
        THEN /\ last' = [op |-> "delete_file", code |-> 404]
             /\ UNCHANGED <<store, datanodes, published, counters, owner, now, handled, workerVars, grpcVars>>
        ELSE LET gone == {b \in blocks : \E f \in found : b.file_id = f.id}
             IN  /\ files' = files \ found
                 /\ blocks' = blocks \ gone
                 /\ locations' = {l \in locations :
                                    ~ \E b \in gone : b.block_id = l.block_id}
                 /\ last' = [op |-> "delete_file", code |-> 200]
                 /\ UNCHANGED <<sessions, datanodes, published, counters, owner, now, handled, workerVars, grpcVars>>

\* The SQL operator LIKE: in the pattern, % stands for any run of characters
\* and _ for any one character.
RECURSIVE Like(_, _)
Like(text, pattern) ==
    IF pattern = <<>> THEN text = <<>>
    ELSE IF Head(pattern) = "%"
         THEN \/ Like(text, Tail(pattern))
              \/ text # <<>> /\ Like(Tail(text), pattern)
    ELSE IF text = <<>> THEN FALSE
    ELSE /\ Head(pattern) = "_" \/ Head(pattern) = Head(text)
         /\ Like(Tail(text), Tail(pattern))

\* FileService.list_files: the files of the user, all of them for the prefix
\* "/", else those whose file_path is LIKE f"{path_prefix}%".
ListFiles(user_id, path_prefix) ==
    {f \in files : /\ f.user_id = user_id
                   /\ \/ path_prefix = <<"/">>
                      \/ Like(f.file_path, path_prefix \o <<"%">>)}

\* DELETE /files/rmdir: delete_file for every file list_files returns for the
\* directory path.
RemoveDirectory(user_id, directory_path) ==
    LET files_in_dir == ListFiles(user_id, directory_path)
        gone         == {b \in blocks : \E f \in files_in_dir : b.file_id = f.id}
    IN  /\ files' = files \ files_in_dir
        /\ blocks' = blocks \ gone
        /\ locations' = {l \in locations : ~ \E b \in gone : b.block_id = l.block_id}
        /\ last' = [op |-> "remove_directory", code |-> 200]
        /\ UNCHANGED <<sessions, datanodes, published, counters, owner, now, handled, workerVars, grpcVars>>

\* A plan that lists, for a block, every registered storage node.
PlanLocationsEveryNode(block_id) ==
    {[datanode_id |-> n, storage_path |-> <<"storage", block_id>>] :
        n \in DOMAIN datanodes}

\* FileService.get_download_plan: None, or the blocks in index order, each
\* with its locations whose status is active.
PlanLocations(block_id) ==
    {[datanode_id |-> l.datanode_id, storage_path |-> l.storage_path] :
        l \in {x \in locations : x.block_id = block_id /\ x.status = "active"}}

DownloadPlan(user_id, file_path) ==
    LET found == FileOf(user_id, file_path)
    IN  IF found = {} THEN None
        ELSE LET file == CHOOSE f \in found : TRUE
                 rows == BlocksOfFile(file.id)
                 n    == Cardinality(rows)
                 row(i) == CHOOSE b \in rows :
                             Cardinality({c \in rows : c.block_index < b.block_index}) = i
             IN  [file_info |-> file,
                  blocks    |-> [i \in 1..n |->
                                   LET r == row(i - 1)
                                   IN  [block_id    |-> r.block_id,
                                        block_index |-> r.block_index,
                                        block_size  |-> r.block_size,
                                        block_hash  |-> r.block_hash,
                                        locations   |-> PlanLocations(r.block_id)]]]

\* A route that answers 404 when a block of the plan has no location.
GetDownloadPlanDurable(user_id, file_path) ==
    /\ last' = [op   |-> "get_download_plan",
                code |-> IF \/ DownloadPlan(user_id, file_path) = None
                            \/ \E i \in 1..Len(DownloadPlan(user_id, file_path).blocks) :
                                  DownloadPlan(user_id, file_path).blocks[i].locations = {}
                         THEN 404 ELSE 200]
    /\ UNCHANGED <<store, datanodes, published, counters, owner, now, handled, workerVars, grpcVars>>

\* GET /files/download/plan
GetDownloadPlan(user_id, file_path) ==
    /\ last' = [op   |-> "get_download_plan",
                code |-> IF DownloadPlan(user_id, file_path) = None THEN 404 ELSE 200]
    /\ UNCHANGED <<store, datanodes, published, counters, owner, now, handled, workerVars, grpcVars>>

\* GET /system/status: what get_system_status answers, the status of each node
\* as the table holds it.
SystemStatus ==
    [datanodes    |-> [n \in DOMAIN datanodes |->
                          [node_id          |-> n,
                           status           |-> datanodes[n].status,
                           last_heartbeat   |-> datanodes[n].last_heartbeat,
                           storage_used     |-> datanodes[n].storage_used,
                           storage_capacity |-> datanodes[n].storage_capacity]],
     active_nodes |-> Cardinality({n \in DOMAIN datanodes :
                                     datanodes[n].status = "active"})]

GetSystemStatus ==
    /\ last' = [op |-> "get_system_status", code |-> 200]
    /\ UNCHANGED <<store, datanodes, published, counters, owner, now, handled, workerVars, grpcVars>>

\* ---------------------------------------------- BlockService (coordinator)
UpdateUploadProgress(sess, upload_id, completed_blocks) ==
    {IF s.upload_id = upload_id
     THEN [s EXCEPT !.completed_blocks = completed_blocks,
                    !.status = IF completed_blocks >= s.total_blocks
                               THEN "completed" ELSE s.status]
     ELSE s : s \in sess}

MarkFailed(sess, upload_id) ==
    {IF s.upload_id = upload_id THEN [s EXCEPT !.status = "failed"] ELSE s : s \in sess}

\* BlockService.mark_upload_failed
MarkUploadFailed(upload_id) ==
    /\ \E s \in sessions : s.upload_id = upload_id
    /\ sessions' = MarkFailed(sessions, upload_id)
    /\ UNCHANGED <<files, blocks, locations, datanodes, published, counters,
                   owner, last, now, handled, workerVars, grpcVars>>

\* ---------------------------------------- ConfirmationHandler (coordinator)
\* The count _update_upload_progress_from_block makes: block_locations joined
\* with blocks, of the file, status active.
ConfirmedBlocks(locs, file_id) ==
    Cardinality({l \in locs : /\ l.status = "active"
                              /\ \E b \in blocks : /\ b.block_id = l.block_id
                                                   /\ b.file_id = file_id})

\* The pending sessions the query of _update_upload_progress_from_block
\* matches; .first() without ORDER BY returns any one of them.
PendingSessionsFor(file) ==
    {s \in sessions : /\ s.file_path = file.file_path
                      /\ s.user_id = file.user_id
                      /\ s.status = "pending"}

UpdateUploadProgressFromBlock(locs, block_id) ==
    LET bs == {b \in blocks : b.block_id = block_id}
    IN  IF bs = {} THEN sessions' = sessions
        ELSE LET block == CHOOSE b \in bs : TRUE
                 fs    == {f \in files : f.id = block.file_id}
             IN  IF fs = {} THEN sessions' = sessions
                 ELSE LET file == CHOOSE f \in fs : TRUE
                      IN  IF PendingSessionsFor(file) = {} THEN sessions' = sessions
                          ELSE \E upload_session \in PendingSessionsFor(file) :
                                 sessions' = UpdateUploadProgress(sessions,
                                                upload_session.upload_id,
                                                ConfirmedBlocks(locs, file.id))

\* The foreign key to datanodes.node_id alone.
NodeKnown(block_id, datanode_id) == datanode_id \in DOMAIN datanodes

\* The foreign keys of block_locations: blocks.block_id, datanodes.node_id.
LocationInsertable(block_id, datanode_id) ==
    /\ \E b \in blocks : b.block_id = block_id
    /\ datanode_id \in DOMAIN datanodes

NewLocation(block_id, datanode_id, storage_path) ==
    [block_id     |-> block_id,
     datanode_id  |-> datanode_id,
     status       |-> "active",
     storage_path |-> storage_path]

\* A handler that records a location whatever the status of the message.
HandleStorageConfirmationAnyStatus(block_id, datanode_id, status) ==
    /\ UNCHANGED <<files, blocks, datanodes, published, counters, owner, last, now, workerVars, grpcVars>>
    /\ IF \E l \in locations : l.block_id = block_id /\ l.datanode_id = datanode_id
       THEN /\ locations' = locations
            /\ UpdateUploadProgressFromBlock(locations, block_id)
       ELSE IF LocationInsertable(block_id, datanode_id)
            THEN /\ locations' = locations \cup
                       {NewLocation(block_id, datanode_id, <<"storage", block_id>>)}
                 /\ UpdateUploadProgressFromBlock(locations', block_id)
            ELSE UNCHANGED <<locations, sessions>>

\* ConfirmationHandler._handle_storage_confirmation (the step that delivers
\* the message says what becomes of `handled`)
HandleStorageConfirmation(block_id, datanode_id, status) ==
    /\ UNCHANGED <<files, blocks, datanodes, published, counters, owner, last, now, workerVars, grpcVars>>
    /\ IF status # "success"
       THEN UNCHANGED <<locations, sessions>>
       ELSE IF \E l \in locations : l.block_id = block_id /\ l.datanode_id = datanode_id
            THEN /\ locations' = locations
                 /\ UpdateUploadProgressFromBlock(locations, block_id)
            ELSE IF LocationInsertable(block_id, datanode_id)
                 THEN /\ locations' = locations \cup
                            {NewLocation(block_id, datanode_id, <<"storage", block_id>>)}
                      /\ UpdateUploadProgressFromBlock(locations', block_id)
                 ELSE UNCHANGED <<locations, sessions>>

\* _handle_storage_confirmation when the metadata store fails after the
\* commit of the new location: the recount of _update_upload_progress_from_block
\* or the commit of update_upload_progress raises, which is logged, and the
\* session stays as it was.
HandleStorageConfirmationFailing(block_id, datanode_id) ==
    /\ ~ \E l \in locations : l.block_id = block_id /\ l.datanode_id = datanode_id
    /\ LocationInsertable(block_id, datanode_id)
    /\ locations' = locations \cup
           {NewLocation(block_id, datanode_id, <<"storage", block_id>>)}
    /\ UNCHANGED <<files, blocks, sessions, datanodes, published, counters, owner,
                   last, now, workerVars, grpcVars>>

\* ConfirmationHandler._handle_heartbeat
HandleHeartbeat(datanode_id, storage_used) ==
    /\ datanodes' = [n \in DOMAIN datanodes \cup {datanode_id} |->
                        IF n = datanode_id
                        THEN [status           |-> "active",
                              storage_used     |-> storage_used,
                              storage_capacity |-> STORAGE_CAPACITY,
                              last_heartbeat   |-> now]
                        ELSE datanodes[n]]
    /\ UNCHANGED <<store, published, counters, owner, last, now, workerVars, grpcVars>>


\* ------------------------------------------------- DataNodeWorker (bus variant)
\* StoragePolicy.has_sufficient_space: the free bytes of the file system
\* (statvfs) against the block plus a tenth of the configured capacity.
HasSufficientSpace(available_bytes, required_size) ==
    10 * available_bytes >= 10 * required_size + MIN_FREE_SPACE_TENTHS * STORAGE_CAPACITY

\* The total_size of get_storage_used_ratio: the sizes of the files under
\* STORAGE_PATH.
RECURSIVE TotalSize(_, _)
TotalSize(dir, ids) ==
    IF ids = {} THEN 0
    ELSE LET id == CHOOSE x \in ids : TRUE
         IN  Len(dir[id]) + TotalSize(dir, ids \ {id})

UsedBytes(node) == TotalSize(disk[node], DOMAIN disk[node])

\* os.path.join(self.storage_path, block_id)
BlockPath(block_id) == <<"storage", block_id>>

\* A policy that asks for space and draws also for a block already on disk.
ShouldStoreBlockAlwaysAsks(node, block_id, space, draw) ==
    IF ~ space THEN FALSE
    ELSE draw /\ UsedBytes(node) < STORAGE_CAPACITY

\* StoragePolicy.should_store_block: a block already on disk is taken; with
\* too little space the block is declined; else the draw of random.random()
\* against the adjusted probability 0.8 * (1 - used_ratio) decides, which no
\* draw is below once the used bytes reach the capacity.
ShouldStoreBlock(node, block_id, space, draw) ==
    IF block_id \in DOMAIN disk[node] THEN TRUE
    ELSE IF ~ space THEN FALSE
    ELSE draw /\ UsedBytes(node) < STORAGE_CAPACITY

\* DataNodeWorker._handle_store_block: the confirmation it sends ("none" when
\* it sends none), the storage_path the confirmation carries (storage_path or
\* "") and whether it writes the block. `space` is what
\* has_sufficient_space answers to the policy, `space_again` what it answers
\* to the worker.
StoreBlockOutcome(node, message, space, space_again, draw) ==
    IF ~ ShouldStoreBlock(node, message.block_id, space, draw)
    THEN [sent |-> "none", write |-> FALSE, storage_path |-> <<>>]
    ELSE IF Sha256(B64Decode(message.block_data)) # message.block_hash
    THEN [sent |-> "error", write |-> FALSE, storage_path |-> <<>>]
    ELSE IF message.block_id \in DOMAIN disk[node]
    THEN [sent |-> "success", write |-> FALSE,
          storage_path |-> BlockPath(message.block_id)]
    ELSE IF ~ space_again
    THEN [sent |-> "insufficient_space", write |-> FALSE, storage_path |-> <<>>]
    ELSE [sent |-> "success", write |-> TRUE,
          storage_path |-> BlockPath(message.block_id)]

HandleStoreBlock(node, message, space, space_again, draw) ==
    LET outcome == StoreBlockOutcome(node, message, space, space_again, draw)
    IN  /\ disk' = IF outcome.write
                   THEN [disk EXCEPT ![node] =
                           [id \in DOMAIN disk[node] \cup {message.block_id} |->
                               IF id = message.block_id
                               THEN B64Decode(message.block_data)
                               ELSE disk[node][id]]]
                   ELSE disk
        /\ delivered' = [datanode_id |-> node,
                         block_id    |-> message.block_id,
                         present     |-> message.block_id \in DOMAIN disk[node],
                         space       |-> space,
                         draw        |-> draw,
                         matches     |-> Sha256(B64Decode(message.block_data))
                                            = message.block_hash,
                         accepted    |-> ShouldStoreBlock(node, message.block_id, space, draw),
                         sent        |-> outcome.sent,
                         storage_path |-> outcome.storage_path,
                         stored      |-> outcome.write]
        /\ UNCHANGED <<writing, responded, beat, busVars, grpcVars, now>>

\* The file of a block on a node with the given bytes in it.
WithBlockFile(node, block_id, bytes) ==
    [disk EXCEPT ![node] =
        [id \in DOMAIN disk[node] \cup {block_id} |->
            IF id = block_id THEN bytes ELSE disk[node][id]]]

\* _handle_store_block in the steps of its write, as the request thread of the
\* same worker sees them. First step: the policy accepts, the hash matches,
\* the block is not on disk, there is space, and open(block_path, 'wb')
\* creates the file, empty.
StoreBlockOpen(node, message) ==
    /\ writing[node] = None
    /\ \E space, space_again, draw \in BOOLEAN :
          StoreBlockOutcome(node, message, space, space_again, draw).write
    /\ disk' = WithBlockFile(node, message.block_id, <<>>)
    /\ writing' = [writing EXCEPT ![node] = message]
    /\ UNCHANGED <<delivered, responded, beat, busVars, grpcVars, now>>

\* f.write(block_data): `count` more bytes of the block reach the file.
StoreBlockWrite(node, count) ==
    /\ writing[node] # None
    /\ LET block_data == B64Decode(writing[node].block_data)
           have       == Len(disk[node][writing[node].block_id])
       IN  /\ count \in 1..(Len(block_data) - have)
           /\ disk' = WithBlockFile(node, writing[node].block_id,
                                    SubSeq(block_data, 1, have + count))
    /\ UNCHANGED <<delivered, writing, responded, beat, busVars, grpcVars, now>>

\* The with block closes the file and the success confirmation is sent.
StoreBlockClose(node) ==
    /\ writing[node] # None
    /\ disk[node][writing[node].block_id] = B64Decode(writing[node].block_data)
    /\ delivered' = [datanode_id |-> node,
                     block_id    |-> writing[node].block_id,
                     present     |-> FALSE,
                     space       |-> TRUE,
                     draw        |-> TRUE,
                     matches     |-> TRUE,
                     accepted    |-> TRUE,
                     sent        |-> "success",
                     storage_path |-> BlockPath(writing[node].block_id),
                     stored      |-> TRUE]
    /\ writing' = [writing EXCEPT ![node] = None]
    /\ UNCHANGED <<disk, responded, beat, busVars, grpcVars, now>>

\* The worker process dies while the block file is open: the file stays as
\* far as it was written and no confirmation is sent.
WorkerCrash(node) ==
    /\ writing[node] # None
    /\ writing' = [writing EXCEPT ![node] = None]
    /\ UNCHANGED <<disk, delivered, responded, beat, busVars, grpcVars, now>>

\* ------------------------------------------------------------ the broker
\* The bindings on the exchange griddfs.direct: setup_datanode_queues binds
\* block.request.<node>, storage.confirm and datanode.heartbeat;
\* setup_client_queue declares the client's exclusive reply queue and binds
\* nothing.
RequestQueue(datanode_id) == <<"block.request", datanode_id>>
SetupClientQueue(client_id) == <<"amq.gen", client_id>>

DirectBindings ==
    {[queue |-> RequestQueue(n), routing_key |-> RequestQueue(n)] : n \in Nodes}
        \cup {[queue |-> <<"storage.confirm">>, routing_key |-> <<"storage.confirm">>],
              [queue |-> <<"datanode.heartbeat">>, routing_key |-> <<"heartbeat">>]}

\* publish_direct: basic_publish on griddfs.direct reaches the queues bound
\* there with the routing key.
PublishDirect(routing_key) ==
    {b.queue : b \in {x \in DirectBindings : x.routing_key = routing_key}}

\* The request_block message of a client whose reply queue is the one
\* setup_client_queue gave it.
RequestBlockMessage(block_id, client_id) ==
    [message_type   |-> "request_block",
     block_id       |-> block_id,
     client_id      |-> client_id,
     response_queue |-> SetupClientQueue(client_id)]

\* DataNodeWorker._handle_request_block + _send_block_response
HandleRequestBlock(node, message) ==
    LET present  == message.block_id \in DOMAIN disk[node]
        response == IF present
                    THEN [message_type |-> "block_response",
                          block_id     |-> message.block_id,
                          block_data   |-> B64Encode(disk[node][message.block_id]),
                          status       |-> "success"]
                    ELSE [message_type |-> "block_response",
                          block_id     |-> message.block_id,
                          block_data   |-> None,
                          status       |-> "not_found"]
    IN  /\ responded' = [datanode_id |-> node,
                         request     |-> message,
                         present     |-> present,
                         published   |-> <<response>>,
                         routing_key |-> message.response_queue,
                         queues      |-> PublishDirect(message.response_queue)]
        /\ UNCHANGED <<disk, delivered, writing, beat, busVars, grpcVars, now>>

\* ------------------------------------------------------ HeartbeatService
HeartbeatOutcomes == {"sent", "build_failed", "publish_failed"}

\* HeartbeatService.start: running is set and the thread is started.
HeartbeatStart(node) ==
    /\ ~ beat[node].running
    /\ beat[node].thread = "none"
    /\ beat' = [beat EXCEPT ![node].running = TRUE, ![node].thread = "connecting"]
    /\ UNCHANGED <<disk, delivered, writing, responded, busVars, grpcVars, now>>

\* _send_heartbeats up to the loop: when connect() fails the thread returns;
\* else the loop is entered if running is still set.
HeartbeatConnect(node, connected) ==
    /\ beat[node].thread = "connecting"
    /\ beat' = [beat EXCEPT ![node].thread =
                   IF connected /\ beat[node].running THEN "send" ELSE "ended"]
    /\ UNCHANGED <<disk, delivered, writing, responded, busVars, grpcVars, now>>

\* A loop in which a heartbeat that fails ends the thread.
HeartbeatAttemptOnce(node, outcome) ==
    /\ beat[node].thread = "send"
    /\ outcome = "sent" => beat[node].running
    /\ beat' = [beat EXCEPT ![node].thread = IF outcome = "sent" THEN "sleep" ELSE "ended",
                            ![node].round = 1 - beat[node].round,
                            ![node].prev = beat[node].result,
                            ![node].result = outcome,
                            ![node].sent = IF outcome = "sent"
                                           THEN [storage_used |-> UsedBytes(node)]
                                           ELSE beat[node].sent]
    /\ UNCHANGED <<disk, delivered, writing, responded, busVars, grpcVars, now>>

\* The body of the loop: the statistics are taken, the message is built and
\* published; an exception of either is caught and logged inside the loop, and
\* the thread goes to sleep. After stop() the connection is closed and the
\* publish fails.
HeartbeatAttempt(node, outcome) ==
    /\ beat[node].thread = "send"
    /\ outcome = "sent" => beat[node].running
    /\ beat' = [beat EXCEPT ![node].thread = "sleep",
                            ![node].round = 1 - beat[node].round,
                            ![node].prev = beat[node].result,
                            ![node].result = outcome,
                            ![node].sent = IF outcome = "sent"
                                           THEN [storage_used |-> UsedBytes(node)]
                                           ELSE beat[node].sent]
    /\ UNCHANGED <<disk, delivered, writing, responded, busVars, grpcVars, now>>

\* time.sleep(self.interval) returns and `while self.running` is tested.
HeartbeatWake(node) ==
    /\ beat[node].thread = "sleep"
    /\ beat' = [beat EXCEPT ![node].thread =
                   IF beat[node].running THEN "send" ELSE "ended"]
    /\ UNCHANGED <<disk, delivered, writing, responded, busVars, grpcVars, now>>

\* HeartbeatService.stop
HeartbeatStop(node) ==
    /\ beat[node].running
    /\ beat' = [beat EXCEPT ![node].running = FALSE]
    /\ UNCHANGED <<disk, delivered, writing, responded, busVars, grpcVars, now>>

\* ------------------------------------------------------------- gRPC variant
\* serve(): the data node starts, registers (a new row each time) and sends
\* its first heartbeat.
GrpcServe(host) ==
    /\ host \notin gUp
    /\ Len(gNodes) < MaxRegistrations
    /\ gNodes' = Append(gNodes, [host |-> host, last_heartbeat |-> now])
    /\ gId' = [gId EXCEPT ![host] = Len(gNodes) + 1]
    /\ gUp' = gUp \cup {host}
    /\ UNCHANGED <<gFiles, gStore, gOut, gPuts, now, busVars, workerVars>>

\* send_heartbeat + POST /heartbeat/{datanode_id}
GrpcHeartbeat(host) ==
    /\ host \in gUp
    /\ gNodes' = [gNodes EXCEPT ![gId[host]].last_heartbeat = now]
    /\ UNCHANGED <<gFiles, gId, gUp, gStore, gOut, gPuts, now, busVars, workerVars>>

\* The data node process is stopped; its block files stay on disk.
GrpcStop(host) ==
    /\ host \in gUp
    /\ gUp' = gUp \ {host}
    /\ UNCHANGED <<gFiles, gNodes, gId, gStore, gOut, gPuts, now, busVars, workerVars>>

\* put_metadata: the rows whose heartbeat is less than 30 s old
ActiveNodes ==
    SelectSeq(gNodes, LAMBDA row : now - row.last_heartbeat < GRPC_ACTIVE_WINDOW)

\* put_file: size_mb; put_metadata: num_blocks
SizeMb(size) == BLOCK_SIZE_MB * ((size + BLOCK_SIZE - 1) \div BLOCK_SIZE)
NumBlocks(size_mb) ==
    (size_mb * (BLOCK_SIZE \div BLOCK_SIZE_MB) + BLOCK_SIZE - 1) \div BLOCK_SIZE

\* put_metadata: block i goes to active_nodes[i % len(active_nodes)] under the
\* id f"{filename}_block{i}"
Assignments(filename, num_blocks, active_nodes) ==
    [k \in 1..num_blocks |->
        [id       |-> <<filename, "_block", k - 1>>,
         datanode |-> active_nodes[((k - 1) % Len(active_nodes)) + 1].host]]

\* put_file stores block after block and stops at the first data node that
\* does not answer: the number of blocks stored.
RECURSIVE StoredCount(_, _)
StoredCount(assignments, k) ==
    IF k > Len(assignments) THEN 0
    ELSE IF assignments[k].datanode \notin gUp THEN 0
    ELSE 1 + StoredCount(assignments, k + 1)

\* StoreBlock on each data node: open(block_path, "wb"); write
StoreBlocks(st, assignments, data, count) ==
    [h \in Hosts |->
        LET mine == {k \in 1..count : assignments[k].datanode = h}
        IN  [id \in DOMAIN st[h] \cup {assignments[k].id : k \in mine} |->
                IF \E k \in mine : assignments[k].id = id
                THEN LET k == CHOOSE j \in mine : assignments[j].id = id
                     IN  ReadAt(data, (k - 1) * BLOCK_SIZE, BLOCK_SIZE)
                ELSE st[h][id]]]

HasRow(username, filename) ==
    \E k \in 1..Len(gFiles) :
        gFiles[k].username = username /\ gFiles[k].filename = filename

\* client put_file with /put_metadata and StoreBlock (the form `put <file>`:
\* the name in the file system is the name of the local file)
GrpcPutFile(username, filename, data) ==
    /\ Len(gPuts) < MaxPuts
    /\ IF ActiveNodes = <<>>
       THEN /\ gPuts' = Append(gPuts, [username |-> username, filename |-> filename,
                                       data |-> data, ok |-> FALSE])
            /\ UNCHANGED <<gFiles, gStore>>
       ELSE LET num_blocks  == NumBlocks(SizeMb(Len(data)))
                assignments == Assignments(filename, num_blocks, ActiveNodes)
                count       == StoredCount(assignments, 1)
            IN  /\ gFiles' = Append(gFiles, [username |-> username,
                                             filename |-> filename,
                                             metadata |-> assignments])
                /\ gStore' = StoreBlocks(gStore, assignments, data, count)
                /\ gPuts' = Append(gPuts, [username |-> username, filename |-> filename,
                                           data |-> data, ok |-> count = num_blocks])
    /\ UNCHANGED <<gNodes, gId, gUp, gOut, now, busVars, workerVars>>

\* client get_block with GetBlock: the bytes (some TRUE), or None (some FALSE)
\* when the data node is unreachable or has no such block
GetBlock(host, block_id) ==
    IF host \in gUp /\ block_id \in DOMAIN gStore[host]
    THEN [some |-> TRUE, data |-> gStore[host][block_id]]
    ELSE [some |-> FALSE, data |-> <<>>]

\* get_file's loop: the blocks it writes, in order (`if data:` skips a block
\* that is None or empty and goes on)
RECURSIVE Fetch(_, _)
Fetch(assignments, k) ==
    IF k > Len(assignments) THEN <<>>
    ELSE LET reply == GetBlock(assignments[k].datanode, assignments[k].id)
         IN  (IF reply.some /\ reply.data # <<>>
              THEN <<[index |-> k - 1, id |-> assignments[k].id, data |-> reply.data]>>
              ELSE <<>>)
             \o Fetch(assignments, k + 1)

RECURSIVE Concat(_)
Concat(written) ==
    IF written = <<>> THEN <<>> ELSE Head(written).data \o Concat(Tail(written))

\* client get_file with /get_metadata (fetchone(): the first row in rowid order)
GrpcGetFile(username, filename) ==
    /\ LET rows == SelectSeq(gFiles, LAMBDA r : r.username = username
                                                /\ r.filename = filename)
       IN  IF rows = <<>>
           THEN gOut' = [username |-> username, filename |-> filename,
                         found |-> FALSE, written |-> <<>>, data |-> <<>>,
                         all_ok |-> FALSE, live |-> FALSE]
           ELSE LET assignments == rows[1].metadata
                    written     == Fetch(assignments, 1)
                IN  gOut' = [username |-> username, filename |-> filename,
                             found    |-> TRUE,
                             written  |-> written,
                             data     |-> Concat(written),
                             all_ok   |-> Len(written) = Len(assignments),
                             live     |-> \A k \in 1..Len(assignments) :
                                             assignments[k].datanode \in gUp]
    /\ UNCHANGED <<gFiles, gNodes, gId, gUp, gStore, gPuts, now, busVars, workerVars>>

\* DeleteBlock on the data nodes for the blocks of the metadata: the block
\* file is removed where the data node answers and has it.
DeleteBlocks(st, assignments) ==
    [h \in Hosts |->
        LET mine == {assignments[k].id : k \in {j \in 1..Len(assignments) :
                                                 assignments[j].datanode = h}}
        IN  IF h \in gUp
            THEN [id \in DOMAIN st[h] \ mine |-> st[h][id]]
            ELSE st[h]]

\* client remove_file with DELETE /rm/{filename}: 404 without a row of the
\* user; else the blocks of the first row are deleted on their data nodes and
\* every row of the (username, filename) is deleted.
GrpcRemoveFile(username, filename) ==
    /\ LET rows == SelectSeq(gFiles, LAMBDA r : r.username = username
                                                /\ r.filename = filename)
       IN  IF rows = <<>>
           THEN UNCHANGED <<gFiles, gStore>>
           ELSE /\ gStore' = DeleteBlocks(gStore, rows[1].metadata)
                /\ gFiles' = SelectSeq(gFiles, LAMBDA r : ~ (/\ r.username = username
                                                             /\ r.filename = filename))
    /\ UNCHANGED <<gNodes, gId, gUp, gOut, gPuts, now, busVars, workerVars>>

\* Time passes.
Tick ==
    /\ now < MaxTime
    /\ now' = now + 1
    /\ UNCHANGED <<busVars, workerVars, grpcVars>>

\* ------------------------------------------------------------ specifications
Init ==
    /\ files = {}
    /\ blocks = {}
    /\ locations = {}
    /\ sessions = {}
    /\ datanodes = <<>>
    /\ published = {}
    /\ nextFileId = 1
    /\ nextBlockId = 1
    /\ nextUploadId = 1
    /\ owner = <<>>
    /\ last = [op |-> "init", code |-> 0]
    /\ handled = None
    /\ disk = [n \in Nodes |-> <<>>]
    /\ delivered = None
    /\ writing = [n \in Nodes |-> None]
    /\ responded = None
    /\ beat = [n \in Nodes |-> [running |-> FALSE, thread |-> "none", round |-> 0,
                                 result |-> "none", prev |-> "none", sent |-> None]]
    /\ now = 0
    /\ gFiles = <<>>
    /\ gNodes = <<>>
    /\ gId = [h \in Hosts |-> 0]
    /\ gUp = {}
    /\ gStore = [h \in Hosts |-> <<>>]
    /\ gOut = None
    /\ gPuts = <<>>

\* The coordinator's metadata store: two principals upload to and delete one
\* path, storage nodes register and confirm, sessions are aborted.
Upload == \E u \in Users, d \in SomeContents : CreateUploadPlan(u, PathA, d)
Delete == \E u \in Users : DeleteFile(u, PathA)
Abort == \E id \in 1..MaxUploads : MarkUploadFailed(id)
Confirm == \E b \in 1..MaxBlocks, n \in Nodes, st \in ConfirmStatuses :
              HandleStorageConfirmation(b, n, st) /\ UNCHANGED handled
Heartbeat == \E n \in Nodes : HandleHeartbeat(n, 0) /\ UNCHANGED handled

Next == Upload \/ Delete \/ Abort \/ Confirm \/ Heartbeat

Spec == Init /\ [][Next]_vars

\* Block sizing: uploads of any content up to MaxFileSize bytes, and deletes.
UploadAny == \E u \in Users, d \in AllContents : CreateUploadPlan(u, PathA, d)
DeleteAny == \E u \in Users : DeleteFile(u, PathA)

NextSizing == UploadAny \/ DeleteAny

SpecSizing == Init /\ [][NextSizing]_vars

\* Liveness of storage nodes: one-block files, heartbeats, the clock and the
\* download plan.
UploadSmall == \E u \in Users : CreateUploadPlan(u, PathA, Pattern(1, 0))
HeartbeatUsed == \E n \in Nodes, used \in 0..MaxUsed :
                    HandleHeartbeat(n, used) /\ UNCHANGED handled
ConfirmSuccess == \E b \in 1..MaxBlocks, n \in Nodes :
                     HandleStorageConfirmation(b, n, "success") /\ UNCHANGED handled
Plan == \E u \in Users : GetDownloadPlan(u, PathA)

NextLive == UploadSmall \/ Delete \/ ConfirmSuccess \/ HeartbeatUsed \/ Plan
               \/ GetSystemStatus \/ Tick

SpecLive == Init /\ [][NextLive]_vars

\* Deletes: one principal uploads and deletes one path, storage nodes register
\* and confirm with any status.
UploadOne == \E d \in SomeContents : CreateUploadPlan(1, PathA, d)
DeleteOne == DeleteFile(1, PathA)

NextCascade == UploadOne \/ DeleteOne \/ Confirm \/ Heartbeat

SpecCascade == Init /\ [][NextCascade]_vars

\* Fan-out: one principal uploads contents whose blocks differ from one
\* another, and deletes.
UploadMixed == \E d \in MixedContents : CreateUploadPlan(1, PathA, d)

NextFanout == UploadMixed \/ DeleteOne

SpecFanout == Init /\ [][NextFanout]_vars

\* Confirmations: the same with one registered storage node, dn1, and with
\* the confirmations, of any status, block id and node, recorded as they are
\* processed.
HeartbeatOne == HandleHeartbeat("dn1", 0) /\ UNCHANGED handled

ConfirmRecorded ==
    \E b \in 1..MaxBlocks, n \in Nodes, st \in ConfirmStatuses :
        /\ HandleStorageConfirmation(b, n, st)
        /\ handled' = [message_type |-> "storage_confirmed", block_id |-> b,
                       datanode_id |-> n, status |-> st,
                       known |-> \E x \in blocks : x.block_id = b]

NextConfirm == UploadOne \/ DeleteOne \/ ConfirmRecorded \/ HeartbeatOne

SpecConfirm == Init /\ [][NextConfirm]_vars

\* Confirmations during which the metadata store fails: one principal uploads
\* once, storage nodes register and confirm.
ConfirmFailing == \E b \in 1..MaxBlocks, n \in Nodes :
                     HandleStorageConfirmationFailing(b, n) /\ UNCHANGED handled

NextRecount == UploadOne \/ Heartbeat \/ ConfirmSuccess \/ ConfirmFailing

SpecRecount == Init /\ [][NextRecount]_vars

\* Download plans: one principal uploads and deletes one path, storage nodes
\* register and confirm, both principals ask for the plan.
NextPlan == UploadOne \/ DeleteOne \/ ConfirmSuccess \/ Heartbeat \/ Plan

SpecPlan == Init /\ [][NextPlan]_vars

\* Storage nodes: one principal uploads, and each store_block message is
\* delivered to the workers as published or with its bytes damaged, with any
\* number of free bytes on the file system and any draw of the admission
\* policy.
Damaged(message) ==
    [message EXCEPT !.block_data =
        B64Encode([i \in 1..message.block_size |->
                      IF i = 1 THEN 1 - B64Decode(message.block_data)[i]
                      ELSE B64Decode(message.block_data)[i]])]

Deliver == \E n \in Nodes, m \in published, draw \in BOOLEAN,
                 available, available_again \in 0..MaxAvailable :
              \/ HandleStoreBlock(n, m, HasSufficientSpace(available, m.block_size),
                                  HasSufficientSpace(available_again, m.block_size), draw)
              \/ HandleStoreBlock(n, Damaged(m),
                                  HasSufficientSpace(available, m.block_size),
                                  HasSufficientSpace(available_again, m.block_size), draw)

NextWorker == UploadOne \/ Deliver

SpecWorker == Init /\ [][NextWorker]_vars

\* Storage nodes, the write of a block file in its steps: one principal
\* uploads, the worker of dn1 stores the blocks and may die while a block file
\* is open, and both workers serve the block requests of two clients.
Clients == {"c1", "c2"}

StoreOpen == \E m \in published : StoreBlockOpen("dn1", m)
StoreWrite == \E count \in 1..BLOCK_SIZE : StoreBlockWrite("dn1", count)
StoreClose == StoreBlockClose("dn1")
Crash == WorkerCrash("dn1")
Request == \E n \in Nodes, b \in 1..MaxBlocks, c \in Clients :
              HandleRequestBlock(n, RequestBlockMessage(b, c))

NextServe == UploadOne \/ StoreOpen \/ StoreWrite \/ StoreClose \/ Crash \/ Request

SpecServe == Init /\ [][NextServe]_vars

\* Failures of the metadata store: uploads that succeed, uploads during which
\* the store fails, and deletes.
UploadFailing == \E u \in Users, d \in SomeContents, k \in 0..2 :
                    CreateUploadPlanFailing(u, PathA, d, k)

NextAtomic == Upload \/ UploadFailing \/ Delete

SpecAtomic == Init /\ [][NextAtomic]_vars

\* The gRPC variant: two principals put and get the same file name on two
\* data nodes that start, send heartbeats and stop.
GServe == \E h \in Hosts : GrpcServe(h)
GHeartbeat == \E h \in Hosts : GrpcHeartbeat(h)
GStop == \E h \in Hosts : GrpcStop(h)
GPut == \E u \in GUsers, f \in GNames, d \in GContents : GrpcPutFile(u, f, d)
GGet == \E u \in GUsers, f \in GNames : GrpcGetFile(u, f)

NextGrpc == GServe \/ GHeartbeat \/ GStop \/ GPut \/ GGet \/ Tick

SpecGrpc == Init /\ [][NextGrpc]_vars

\* ------------------------------------------------------------------- claims
\* The file the call that created the session also created, while it exists.
OwnFile(s) == {f \in files : f.id = owner[s.upload_id]}

\* The blocks of a file that have at least one location.
DistinctConfirmed(file_id) ==
    {b \in BlocksOfFile(file_id) : \E l \in locations : l.block_id = b.block_id}


\* The put_file calls a principal made for a file name.
PutsOf(username, filename) ==
    SelectSeq(gPuts, LAMBDA p : p.username = username /\ p.filename = filename)

\* C1: a principal who put a file once, every block stored, and then gets it
\* while every data node holding its blocks is reachable, gets back exactly the
\* bytes that were put.
C1_GetReturnsWhatWasPut ==
    (gOut # None /\ gOut.found /\ gOut.live) =>
        \A d \in GContents :
            PutsOf(gOut.username, gOut.filename)
                = <<[username |-> gOut.username, filename |-> gOut.filename,
                     data |-> d, ok |-> TRUE]>>
            => gOut.data = d

\* C8: every block get_file writes to the output has the SHA-256 hash of the
\* block recorded at upload, the block the principal's put stored at that
\* index.
C8_FetchedBlocksMatchStoredHash ==
    (gOut # None /\ gOut.found) =>
        \A d \in GContents :
            (/\ Len(PutsOf(gOut.username, gOut.filename)) = 1
             /\ PutsOf(gOut.username, gOut.filename)[1].data = d)
            => \A k \in 1..Len(gOut.written) :
                   Sha256(gOut.written[k].data)
                       = Sha256(ReadAt(d, gOut.written[k].index * BLOCK_SIZE, BLOCK_SIZE))

\* C10: an upload plan for a (principal, path) that already has a file is
\* refused and the metadata store is left as it was, in either coordinator.
C10_DuplicateUploadRefused ==
    [][/\ \A u \in GUsers, f \in GNames :
            (HasRow(u, f) /\ \E d \in GContents : GrpcPutFile(u, f, d))
                => gFiles' = gFiles
       /\ \A u \in Users, p \in Paths :
            (FileOf(u, p) # {} /\ \E d \in AllContents : CreateUploadPlan(u, p, d))
                => (store' = store /\ last'.code = 400)]_vars

\* C2: completed_blocks counts distinct confirmed block ids: a session's
\* completed_blocks never exceeds the number of blocks of its file that have
\* at least one location.
C2_CompletedBlocksCountsDistinct ==
    \A s \in sessions : \A f \in OwnFile(s) :
        s.completed_blocks <= Cardinality(DistinctConfirmed(f.id))

\* C3: a completed session's file has at least one location for every block.
C3_CompletedImpliesEveryBlockLocated ==
    \A s \in sessions : \A f \in OwnFile(s) :
        s.status = "completed" => DistinctConfirmed(f.id) = BlocksOfFile(f.id)

\* C4: processing again a success confirmation whose location is already
\* recorded changes no file, block, location or session.
C4_ReplayedConfirmationChangesNothing ==
    [][\A b \in 1..MaxBlocks, n \in Nodes :
          ( /\ \E l \in locations : l.block_id = b /\ l.datanode_id = n
            /\ HandleStorageConfirmation(b, n, "success") )
          => UNCHANGED store]_vars

\* C5: no step decreases the completed_blocks of a session.
C5_CompletedBlocksNeverDecreases ==
    [][\A s \in sessions : \A t \in sessions' :
          t.upload_id = s.upload_id => t.completed_blocks >= s.completed_blocks]_vars

\* C6: no step changes the status of a session that is completed or failed.
C6_TerminalStatusIsFinal ==
    [][\A s \in sessions : \A t \in sessions' :
          (t.upload_id = s.upload_id /\ s.status # "pending")
          => t.status = s.status]_vars

RECURSIVE SumSizes(_)
SumSizes(rows) ==
    IF rows = {} THEN 0
    ELSE LET b == CHOOSE x \in rows : TRUE
         IN  b.block_size + SumSizes(rows \ {b})

\* C7: a file of size S > 0 has n blocks with (n-1)*B < S <= n*B, one block
\* for each index 0..n-1, every block but the last of size B, and the sizes
\* sum to S.
C7_BlocksDenseAndSized ==
    \A f \in files :
        f.file_size > 0 =>
            LET rows == BlocksOfFile(f.id)
                n    == Cardinality(rows)
            IN  /\ (n - 1) * BLOCK_SIZE < f.file_size
                /\ f.file_size <= n * BLOCK_SIZE
                /\ \A i \in 0..(n - 1) :
                      Cardinality({b \in rows : b.block_index = i}) = 1
                /\ \A b \in rows : b.block_index < n - 1 => b.block_size = BLOCK_SIZE
                /\ SumSizes(rows) = f.file_size

\* A file whose size is no multiple of the block size, in two blocks or more.
C7_Witness ==
    \E f \in files :
        /\ f.file_size % BLOCK_SIZE # 0
        /\ Cardinality(BlocksOfFile(f.id)) >= 2
        /\ last = [op |-> "create_upload_plan", code |-> 200]

\* C9: whatever download plan the coordinator returns, every location it
\* lists is on a node whose last heartbeat is less than 3 heartbeat
\* intervals old.
C9_PlanListsOnlyLiveNodes ==
    \A u \in Users, p \in Paths :
        LET plan == DownloadPlan(u, p)
        IN  plan # None =>
              \A i \in 1..Len(plan.blocks) : \A loc \in plan.blocks[i].locations :
                  /\ loc.datanode_id \in DOMAIN datanodes
                  /\ now - datanodes[loc.datanode_id].last_heartbeat
                        < 3 * HEARTBEAT_INTERVAL

\* Every block has its file and every location has its block.
NoOrphans ==
    /\ \A b \in blocks : \E f \in files : f.id = b.file_id
    /\ \A l \in locations : \E b \in blocks : b.block_id = l.block_id

\* C11: no state holds a block without its file or a location without its
\* block, and the step of a delete that finds the file removes the file, all
\* its blocks and all their locations, after which the download plan of that
\* path is not found.
C11_DeleteCascades ==
    /\ []NoOrphans
    /\ [][\A u \in Users, p \in Paths :
             (FileOf(u, p) # {} /\ DeleteFile(u, p)) =>
                 /\ last'.code = 200
                 /\ \A f \in FileOf(u, p) :
                       /\ f \notin files'
                       /\ \A b \in BlocksOfFile(f.id) :
                             /\ b \notin blocks'
                             /\ \A l \in locations' : l.block_id # b.block_id
                 /\ DownloadPlan(u, p)' = None]_vars

\* A file that had confirmed blocks has been deleted.
C11_Witness ==
    /\ last = [op |-> "delete_file", code |-> 200]
    /\ \E s \in sessions : s.completed_blocks > 0 /\ OwnFile(s) = {}
    /\ \A u \in Users : DownloadPlan(u, PathA) = None

\* C12: processing a storage_confirmed message (the one the step records in
\* handled), of any status and from any node, whose block id has no block row
\* (never created, or of a deleted file) changes no file, block, location or
\* session.
C12_UnknownBlockConfirmationIgnored ==
    [][( /\ handled' # None
         /\ ~ \E x \in blocks : x.block_id = handled'.block_id
         /\ HandleStorageConfirmation(handled'.block_id, handled'.datanode_id,
                                      handled'.status) )
       => UNCHANGED store]_vars

\* A success confirmation from the registered node was processed for a block
\* of a deleted file.
C12_Witness ==
    /\ handled # None
    /\ handled.status = "success"
    /\ ~ handled.known
    /\ handled.datanode_id \in DOMAIN datanodes
    /\ \E m \in published : m.block_id = handled.block_id
    /\ \A l \in locations : l.block_id # handled.block_id

\* C13: a create-upload-plan call, whether it succeeds or the store fails in
\* the middle of it, either leaves files, blocks and sessions as they were or
\* adds all three of the file, its total_blocks blocks and its pending
\* session.
C13_CreateUploadPlanAtomic ==
    [][\A u \in Users, p \in Paths, d \in AllContents :
          (CreateUploadPlan(u, p, d) \/ \E k \in 0..2 : CreateUploadPlanFailing(u, p, d, k))
          => \/ UNCHANGED store
             \/ \E f \in files' \ files : \E s \in sessions' \ sessions :
                   /\ f.user_id = u /\ f.file_path = p
                   /\ s.user_id = u /\ s.file_path = p /\ s.status = "pending"
                   /\ Cardinality({b \in blocks' : b.file_id = f.id}) = s.total_blocks
                   /\ s.total_blocks = Ceil(Len(d), BLOCK_SIZE)]_vars

\* C14: a create-upload-plan call whose content is empty or larger than
\* MAX_UPLOAD_SIZE is answered with a client error and leaves files, blocks,
\* locations and sessions as they were.
C14_ZeroOrOversizeRejected ==
    [][\A u \in Users, p \in Paths, d \in AllContents :
          ( /\ Len(d) = 0 \/ Len(d) > MAX_UPLOAD_SIZE
            /\ CreateUploadPlan(u, p, d) )
          => (UNCHANGED store /\ last'.code = 400)]_vars

\* C15: a create-upload-plan call made while the coordinator knows no active
\* storage node fails and commits no metadata, in either coordinator.
C15_NoActiveNodeNoPlan ==
    [][/\ \A u \in Users, p \in Paths, d \in AllContents :
            ( /\ \A n \in DOMAIN datanodes : datanodes[n].status # "active"
              /\ FileOf(u, p) = {}
              /\ CreateUploadPlan(u, p, d) )
            => (UNCHANGED store /\ last'.code # 200)
       /\ \A u \in GUsers, f \in GNames, d \in GContents :
            (ActiveNodes = <<>> /\ GrpcPutFile(u, f, d)) => gFiles' = gFiles]_vars

\* C16: a download plan asked for an existing file is returned (200) whatever
\* the locations are, and it lists every block of the file in index order,
\* each with exactly its active locations: the empty list for a block that
\* has none.
C16_PlanReturnedWithEmptyBlocks ==
    [][\A u \in Users, p \in Paths :
          (FileOf(u, p) # {} /\ GetDownloadPlan(u, p)) =>
              LET plan == DownloadPlan(u, p)
                  file == CHOOSE f \in FileOf(u, p) : TRUE
              IN  /\ last'.code = 200
                  /\ plan # None
                  /\ Len(plan.blocks) = Cardinality(BlocksOfFile(file.id))
                  /\ \A i \in 1..Len(plan.blocks) :
                        /\ plan.blocks[i].block_index = i - 1
                        /\ \E b \in BlocksOfFile(file.id) :
                              b.block_id = plan.blocks[i].block_id
                        /\ {loc.datanode_id : loc \in plan.blocks[i].locations}
                              = {l.datanode_id : l \in
                                   {x \in locations :
                                      /\ x.block_id = plan.blocks[i].block_id
                                      /\ x.status = "active"}}]_vars

\* A plan was returned for a file of which one block has a location and
\* another has none.
C16_Witness ==
    /\ last = [op |-> "get_download_plan", code |-> 200]
    /\ DownloadPlan(1, PathA) # None
    /\ \E i, j \in 1..Len(DownloadPlan(1, PathA).blocks) :
          /\ DownloadPlan(1, PathA).blocks[i].locations = {}
          /\ DownloadPlan(1, PathA).blocks[j].locations # {}

\* C17: processing a storage_confirmed message (the one the step records in
\* handled) whose status is not success creates no location and changes no
\* session (nor any file or block).
C17_NonSuccessNotCounted ==
    [][( /\ handled' # None
         /\ handled'.status # "success"
         /\ HandleStorageConfirmation(handled'.block_id, handled'.datanode_id,
                                      handled'.status) )
       => UNCHANGED store]_vars

\* A confirmation that is not a success was processed for a block of an
\* existing file, from the registered node, which has no location for it.
C17_Witness ==
    /\ handled # None
    /\ handled.status # "success"
    /\ handled.known
    /\ handled.datanode_id \in DOMAIN datanodes
    /\ \E x \in blocks : x.block_id = handled.block_id
    /\ \A l \in locations : l.block_id # handled.block_id
    /\ \E s \in sessions : s.status = "pending" /\ s.completed_blocks = 0

\* The bus consumer upserts: a heartbeat step leaves exactly one record for the
\* node, carrying the status, used and capacity of that heartbeat, and leaves
\* the other records alone; no other step touches the table.
HeartbeatUpserts ==
    /\ \A n \in Nodes, used \in 0..MaxUsed :
          HandleHeartbeat(n, used) =>
              /\ DOMAIN datanodes' = DOMAIN datanodes \cup {n}
              /\ datanodes'[n].status = "active"
              /\ datanodes'[n].storage_used = used
              /\ datanodes'[n].storage_capacity = STORAGE_CAPACITY
              /\ \A m \in DOMAIN datanodes \ {n} : datanodes'[m] = datanodes[m]
    /\ (\A n \in Nodes, used \in 0..MaxUsed : ~ HandleHeartbeat(n, used))
          => UNCHANGED datanodes

\* The rows of the gRPC coordinator's datanodes table for a data node.
RowsOfHost(host) == {k \in 1..Len(gNodes) : gNodes[k].host = host}

\* C18: recording heartbeats is an upsert keyed by the node: in either
\* coordinator a node that has announced itself has exactly one record, and
\* the bus consumer's record carries the values of the node's latest
\* heartbeat.
C18_HeartbeatIsUpsert ==
    [][/\ \A h \in Hosts : Cardinality(RowsOfHost(h))' <= 1
       /\ HeartbeatUpserts]_vars

\* The status the age of the last heartbeat stands for.
DerivedStatus(age) ==
    IF age < 3 * HEARTBEAT_INTERVAL THEN "active"
    ELSE IF age <= 10 * HEARTBEAT_INTERVAL THEN "stale"
    ELSE "dead"

\* C19: the status the coordinator reports for a node is the one the age of
\* its last heartbeat stands for: active below 3 heartbeat intervals, stale up
\* to 10, dead beyond; and the count of active nodes counts those.
C19_StatusDerivedFromHeartbeatAge ==
    /\ \A n \in DOMAIN datanodes :
          SystemStatus.datanodes[n].status
              = DerivedStatus(now - datanodes[n].last_heartbeat)
    /\ SystemStatus.active_nodes
          = Cardinality({n \in DOMAIN datanodes :
                           DerivedStatus(now - datanodes[n].last_heartbeat) = "active"})

\* C20: a storage node that handles a store_block message whose bytes do not
\* hash to the expected hash sends a storage_confirmed with status error and
\* stores nothing, whatever the admission policy answers.
C20_HashMismatchConfirmedAsError ==
    (delivered # None /\ ~ delivered.matches) =>
        (delivered.sent = "error" /\ ~ delivered.stored)

\* C21: a storage node stores a new block of size s only when capacity - used
\* - s is at least a tenth of the capacity, so the bytes stored on a node
\* never exceed nine tenths of its configured capacity.
C21_CapacityReserveKept ==
    [][\A n \in Nodes :
          /\ \A id \in DOMAIN disk'[n] \ DOMAIN disk[n] :
                10 * (STORAGE_CAPACITY - UsedBytes(n) - Len(disk'[n][id]))
                    >= MIN_FREE_SPACE_TENTHS * STORAGE_CAPACITY
          /\ 10 * UsedBytes(n)' <= 9 * STORAGE_CAPACITY]_vars

\* C22: a store_block, as published, delivered to a node that already holds
\* the block is accepted whatever the free space and the draw, leaves the
\* node's files as they were, and is answered with a success confirmation
\* carrying the path of the block file, the same at every delivery.
C22_RedeliveryIdempotent ==
    [][(delivered' # None /\ delivered'.present /\ delivered'.matches) =>
          /\ delivered'.accepted
          /\ delivered'.sent = "success"
          /\ delivered'.storage_path = BlockPath(delivered'.block_id)
          /\ ~ delivered'.stored
          /\ disk' = disk]_vars

\* A block the node holds was delivered again while the file system had no
\* room for it and the draw was against it, and was confirmed.
C22_Witness ==
    /\ delivered # None
    /\ delivered.present
    /\ delivered.matches
    /\ ~ delivered.space
    /\ ~ delivered.draw
    /\ delivered.sent = "success"
    /\ delivered.block_id \in DOMAIN disk[delivered.datanode_id]

\* The bytes of a block as the coordinator published them.
PublishedBytes(block_id) ==
    {B64Decode(m.block_data) : m \in {x \in published : x.block_id = block_id}}

\* C23: a block file that exists on a node holds the complete bytes of the
\* block at every moment, so a request_block answered with success carries the
\* full block, also while the block is being stored and after a worker died
\* during the store.
C23_BlockFilesAppearWhole ==
    /\ \A n \in Nodes : \A id \in DOMAIN disk[n] : disk[n][id] \in PublishedBytes(id)
    /\ (responded # None /\ responded.published[1].status = "success") =>
          B64Decode(responded.published[1].block_data)
              \in PublishedBytes(responded.request.block_id)

\* C24: for a request_block a node handles, exactly one block_response is
\* published, success with the stored bytes when the node has the block file
\* and not_found when it has not, and it is delivered to the reply queue named
\* in the request and to no other queue.
C24_ResponseReachesReplyQueue ==
    responded # None =>
        /\ Len(responded.published) = 1
        /\ responded.published[1].block_id = responded.request.block_id
        /\ responded.published[1].status
              = (IF responded.present THEN "success" ELSE "not_found")
        /\ responded.present =>
              B64Decode(responded.published[1].block_data)
                  = disk[responded.datanode_id][responded.request.block_id]
        /\ responded.queues = {responded.request.response_queue}

\* C25: after a create-upload-plan call answered 200, every block the call
\* registered has exactly one store_block message on the fanout exchange,
\* published by that call, carrying the block's id, index, size and hash and
\* the bytes of the file from offset index * BLOCK_SIZE, size of them.
C25_FanoutComplete ==
    [][\A u \in Users, p \in Paths, d \in MixedContents :
          (CreateUploadPlan(u, p, d) /\ last'.code = 200) =>
              /\ blocks' \ blocks # {}
              /\ \A b \in blocks' \ blocks :
                    /\ Cardinality({m \in published' : m.block_id = b.block_id}) = 1
                    /\ \A m \in {x \in published' : x.block_id = b.block_id} :
                          /\ m \notin published
                          /\ m.message_type = "store_block"
                          /\ m.block_index = b.block_index
                          /\ m.block_size = b.block_size
                          /\ m.block_hash = b.block_hash
                          /\ Sha256(B64Decode(m.block_data)) = b.block_hash
                          /\ B64Decode(m.block_data)
                                = SubSeq(d, b.block_index * BLOCK_SIZE + 1,
                                         b.block_index * BLOCK_SIZE + b.block_size)]_vars

\* An upload of a file of two blocks or more, the last one short, whose
\* blocks do not all hold the same bytes, was answered 200 and each of its
\* blocks has a store_block message.
C25_Witness ==
    /\ last = [op |-> "create_upload_plan", code |-> 200]
    /\ \E f \in files :
          /\ f.file_size % BLOCK_SIZE # 0
          /\ Cardinality(BlocksOfFile(f.id)) >= 2
          /\ \A b \in BlocksOfFile(f.id) : \E m \in published : m.block_id = b.block_id
          /\ \E b1, b2 \in BlocksOfFile(f.id) :
                /\ b1.block_size = b2.block_size
                /\ b1.block_hash # b2.block_hash

\* C26: a get during which some block could not be fetched from any of its
\* locations fails as a whole: it does not report success and it does not
\* leave an output file in which a block is missing while a later block was
\* written.
C26_MissingBlockFailsWholeDownload ==
    (gOut # None /\ gOut.found /\ ~ gOut.all_ok) =>
        \A k \in 1..Len(gOut.written) : gOut.written[k].index = k - 1

\* C27: block ids are unique: no two rows of the blocks table, and no two
\* blocks in the metadata of the gRPC coordinator's files, of the same file,
\* of different files or of different principals, have the same block id.
C27_BlockIdsUnique ==
    /\ \A b1, b2 \in blocks : b1.block_id = b2.block_id => b1 = b2
    /\ \A r1, r2 \in 1..Len(gFiles) :
          \A i \in 1..Len(gFiles[r1].metadata), j \in 1..Len(gFiles[r2].metadata) :
              gFiles[r1].metadata[i].id = gFiles[r2].metadata[j].id
                  => (r1 = r2 /\ i = j)

\* C28: recording a storage confirmation is one atomic step: a step that
\* commits a new location also leaves every pending session of the block's
\* file with completed_blocks re-counted over the locations and with its
\* status flipped to completed when the count reaches total_blocks.
C28_ConfirmationRecordedAtomically ==
    [][\A l \in locations' \ locations :
          \A b \in {x \in blocks : x.block_id = l.block_id} :
              \A s \in {x \in sessions : x.status = "pending"
                                            /\ owner[x.upload_id] = b.file_id} :
                  \E t \in sessions' :
                      /\ t.upload_id = s.upload_id
                      /\ t.completed_blocks = ConfirmedBlocks(locations', b.file_id)
                      /\ t.status = (IF t.completed_blocks >= t.total_blocks
                                     THEN "completed" ELSE "pending")]_vars

\* C29: processing a success confirmation for a block changes no session but
\* the one created by the create-upload-plan call that created the block,
\* also when an earlier session of the same principal and path is still
\* pending.
C29_OnlyOwningSessionUpdated ==
    [][\A b \in 1..MaxBlocks, n \in Nodes :
          HandleStorageConfirmation(b, n, "success") =>
              \A s \in sessions :
                  (\A x \in blocks : x.block_id = b => owner[s.upload_id] # x.file_id)
                      => s \in sessions']_vars

\* C30: processing a success confirmation (the one the step records in
\* handled) for a block that exists leaves an active location for that block
\* on that node, whether or not a heartbeat of the node was processed before.
C30_SuccessAlwaysRecordsLocation ==
    [][( /\ handled' # None
         /\ handled'.status = "success"
         /\ \E x \in blocks : x.block_id = handled'.block_id
         /\ HandleStorageConfirmation(handled'.block_id, handled'.datanode_id,
                                      handled'.status) )
       => \E l \in locations' : /\ l.block_id = handled'.block_id
                                 /\ l.datanode_id = handled'.datanode_id
                                 /\ l.status = "active"]_vars

\* The rows of the gRPC coordinator's files table for a (username, filename).
RowsOfKey(username, filename) ==
    {k \in 1..Len(gFiles) : /\ gFiles[k].username = username
                            /\ gFiles[k].filename = filename}

\* C31: of two create-upload-plan calls for the same (principal, path), in
\* whatever order their statements reach the metadata store, one succeeds and
\* the other leaves nothing behind: at most one file row exists for a key, in
\* either coordinator, and at most one call for a key was answered with
\* success.
C31_OneCallWinsPerKey ==
    /\ \A u \in Users, p \in Paths : Cardinality(FileOf(u, p)) <= 1
    /\ \A u \in GUsers, f \in GNames :
          /\ Cardinality(RowsOfKey(u, f)) <= 1
          /\ Len(SelectSeq(PutsOf(u, f), LAMBDA c : c.ok)) <= 1

\* Upload sessions over time: one principal uploads, dn1 registers, storage
\* confirmations of any status arrive or stay away (a node that declines a
\* block sends none), and the clock advances. The one step that is bound to
\* happen is the passing of time.
NextDeadline == UploadOne \/ HeartbeatOne \/ Confirm \/ Tick

SpecDeadline == Init /\ [][NextDeadline]_vars /\ WF_vars(Tick)

\* C32: every upload session that is pending is, at some later time, completed
\* or failed: a session whose blocks stay unconfirmed does not stay pending
\* for ever.
C32_SessionsReachTerminalState ==
    \A id \in 1..MaxUploads :
        (\E s \in sessions : s.upload_id = id /\ s.status = "pending")
            ~> (\E s \in sessions : /\ s.upload_id = id
                                    /\ s.status \in {"completed", "failed"})

\* Uploads whose fan-out fails: one principal uploads, with the broker
\* reachable or not, uploads again and deletes.
UploadUnpublished == \E d \in SomeContents, sent \in 0..MaxBlocks :
                        CreateUploadPlanUnpublished(1, PathA, d, sent)

NextResubmit == UploadOne \/ UploadUnpublished \/ DeleteOne

SpecResubmit == Init /\ [][NextResubmit]_vars

\* C33: an upload request that was answered 500 because the fan-out failed
\* leaves the path free: the create-upload-plan request for the same principal
\* and path that follows it is not refused with 400 (the file already exists).
C33_FailedUploadLeavesPathFree ==
    [][( /\ last = [op |-> "create_upload_plan", code |-> 500]
         /\ \E d \in SomeContents : CreateUploadPlan(1, PathA, d) )
       => last'.code # 400]_vars

\* The life of a block from upload to download plan: one principal uploads
\* and deletes; the worker of dn1 takes the published store_block messages
\* and stores them (a worker that declines a block leaves everything as it
\* was); both storage nodes register; the coordinator
\* processes the success confirmations the workers sent. A worker sends a
\* success confirmation for a block exactly when the block is on its disk
\* after the delivery, and no worker removes a block file, so the success
\* confirmations sent so far are those of the blocks on the disks.
Store == \E m \in published : HandleStoreBlock("dn1", m, TRUE, TRUE, TRUE)
ConfirmStored == \E n \in Nodes : \E b \in DOMAIN disk[n] :
                    HandleStorageConfirmation(b, n, "success") /\ UNCHANGED handled
PlanOne == GetDownloadPlan(1, PathA)

NextLifecycle == UploadOne \/ DeleteOne \/ Store \/ Heartbeat \/ ConfirmStored \/ PlanOne

SpecLifecycle == Init /\ [][NextLifecycle]_vars

\* C34: a (block, node) location is in a download plan only after the block
\* was created and fanned out, the node stored it, and the coordinator
\* processed the node's success confirmation for it: each location a plan
\* lists is a recorded location of a published block that is on the node's
\* disk, and a step records a new location only by processing the success
\* confirmation of a block the node has stored.
C34_LocationVisibleAfterConfirmation ==
    [][/\ \A u \in Users, p \in Paths :
            LET plan == DownloadPlan(u, p)
            IN  plan # None =>
                  \A i \in DOMAIN plan.blocks :
                      LET entry == plan.blocks[i]
                          b     == entry.block_id
                      IN  \A l \in entry.locations :
                            /\ \E x \in blocks : x.block_id = b
                            /\ \E m \in published : m.block_id = b
                            /\ b \in DOMAIN disk[l.datanode_id]
                            /\ \E x \in locations : /\ x.block_id = b
                                                    /\ x.datanode_id = l.datanode_id
       /\ \A x \in locations' \ locations :
            /\ x.block_id \in DOMAIN disk[x.datanode_id]
            /\ HandleStorageConfirmation(x.block_id, x.datanode_id, "success")]_vars

\* A plan was answered in which one block has a location and another block of
\* the same file, stored by no node yet, has none.
C34_Witness ==
    /\ last = [op |-> "get_download_plan", code |-> 200]
    /\ DownloadPlan(1, PathA) # None
    /\ \E i, j \in 1..Len(DownloadPlan(1, PathA).blocks) :
          /\ DownloadPlan(1, PathA).blocks[i].locations # {}
          /\ DownloadPlan(1, PathA).blocks[j].locations = {}
          /\ \A n \in Nodes :
                DownloadPlan(1, PathA).blocks[j].block_id \notin DOMAIN disk[n]

\* Usage accounting: the same life of a block, with heartbeats that carry the
\* storage_used get_storage_stats measures on the node, the sizes of the files
\* under STORAGE_PATH.
HeartbeatStats == \E n \in Nodes : HandleHeartbeat(n, UsedBytes(n)) /\ UNCHANGED handled

NextUsage == UploadOne \/ DeleteOne \/ Store \/ HeartbeatStats \/ ConfirmStored

SpecUsage == Init /\ [][NextUsage]_vars

\* The sizes of the blocks for which the coordinator holds an active location
\* on the node.
LocatedBytes(node) ==
    SumSizes({b \in blocks : \E l \in locations : /\ l.block_id = b.block_id
                                                  /\ l.datanode_id = node
                                                  /\ l.status = "active"})

\* No confirmation of the node is under way: every block on its disk that the
\* coordinator still knows has its location.
Settled(node) ==
    \A id \in DOMAIN disk[node] :
        (\E b \in blocks : b.block_id = id)
            => \E l \in locations : l.block_id = id /\ l.datanode_id = node

\* C35: when the coordinator processes the heartbeat of a node none of whose
\* confirmations is under way, the used bytes it records for the node are the
\* sum of the sizes of the blocks with an active location on that node, after
\* any uploads, confirmations and deletes.
C35_ReportedUsageMatchesLocations ==
    [][\A n \in Nodes :
          (Settled(n) /\ HandleHeartbeat(n, UsedBytes(n)))
              => datanodes'[n].storage_used = LocatedBytes(n)]_vars

\* Heartbeats: the heartbeat service of dn1 starts, connects or fails to,
\* sends heartbeats that are built and published or fail, sleeps, and is
\* stopped; the coordinator processes the heartbeats that were published; the
\* clock advances. The thread of the service is scheduled: when it can take a
\* step of its loop it takes one.
BeatStart == HeartbeatStart("dn1")
BeatConnect == \E connected \in BOOLEAN : HeartbeatConnect("dn1", connected)
BeatAttempt == \E outcome \in HeartbeatOutcomes : HeartbeatAttempt("dn1", outcome)
BeatWake == HeartbeatWake("dn1")
BeatStop == HeartbeatStop("dn1")
HeartbeatSent == \E n \in Nodes :
                    /\ beat[n].sent # None
                    /\ HandleHeartbeat(n, beat[n].sent.storage_used)
                    /\ UNCHANGED handled

BeatLoop == BeatConnect \/ BeatAttempt \/ BeatWake

NextBeat == BeatStart \/ BeatConnect \/ BeatAttempt \/ BeatWake \/ BeatStop
               \/ HeartbeatSent \/ Tick

SpecBeat == Init /\ [][NextBeat]_vars /\ WF_vars(BeatLoop)

\* C36: a heartbeat that could not be built or published does not stop the
\* loop: while the service keeps running, the failed attempt is followed by
\* another attempt.
C36_FailedHeartbeatIsFollowedByAnother ==
    \A n \in Nodes, r \in {0, 1} :
        ( /\ beat[n].running
          /\ beat[n].result \in {"build_failed", "publish_failed"}
          /\ beat[n].round = r )
            ~> (beat[n].round = 1 - r \/ ~ beat[n].running)

\* A running service published a heartbeat in the attempt after one that
\* failed.
C36_Witness ==
    \E n \in Nodes :
        /\ beat[n].running
        /\ beat[n].prev \in {"build_failed", "publish_failed"}
        /\ beat[n].result = "sent"

\* C37: every upload session has 0 <= completed_blocks <= total_blocks, and
\* its total_blocks is the number of blocks the call that created it
\* registered for its file.
C37_SessionCountsWithinTotal ==
    \A s \in sessions :
        /\ 0 <= s.completed_blocks
        /\ s.completed_blocks <= s.total_blocks
        /\ \A f \in OwnFile(s) : s.total_blocks = Cardinality(BlocksOfFile(f.id))

\* Directories: two principals upload one-byte files to /a/x and /ab/x and
\* remove the directories /, /a, /a/ and /ab; storage nodes register and
\* confirm.
PathAX == <<"/", "a", "/", "x">>
PathABX == <<"/", "a", "b", "/", "x">>
Directories == {<<"/">>, <<"/", "a">>, <<"/", "a", "/">>, <<"/", "a", "b">>}

UploadInto == \E u \in Users, p \in {PathAX, PathABX} : CreateUploadPlan(u, p, Pattern(1, 0))
RemoveDir == \E u \in Users, d \in Directories : RemoveDirectory(u, d)

NextDirs == UploadInto \/ RemoveDir \/ ConfirmSuccess \/ HeartbeatOne

SpecDirs == Init /\ [][NextDirs]_vars

\* The path lies inside the directory: it begins with the directory path
\* followed by a path separator.
Inside(directory_path, file_path) ==
    LET prefix == IF directory_path[Len(directory_path)] = "/"
                  THEN directory_path ELSE directory_path \o <<"/">>
    IN  /\ Len(file_path) > Len(prefix)
        /\ SubSeq(file_path, 1, Len(prefix)) = prefix

\* C38: removing a directory deletes exactly the files of the calling
\* principal whose path lies inside the directory: no file of another
\* principal goes, and no file whose path only begins with the same
\* characters (for /a, the file /ab/x stays).
C38_RemoveDirectoryDeletesInsideOnly ==
    [][\A u \in Users, d \in Directories :
          RemoveDirectory(u, d) =>
              files \ files' = {f \in files : f.user_id = u /\ Inside(d, f.file_path)}]_vars

\* Principals side by side in the gRPC variant: two principals put, get and
\* remove the same file name on data nodes that start and stop.
GRemove == \E u \in GUsers, f \in GNames : GrpcRemoveFile(u, f)

NextIsolation == GServe \/ GStop \/ GPut \/ GRemove \/ GGet

SpecIsolation == Init /\ [][NextIsolation]_vars

\* What a principal is answered: the names /ls lists, the metadata
\* /get_metadata returns for a name, and the bytes get_file reads back.
Listing(username) ==
    {gFiles[k].filename : k \in {j \in 1..Len(gFiles) : gFiles[j].username = username}}

Metadata(username, filename) ==
    LET rows == SelectSeq(gFiles, LAMBDA r : r.username = username
                                             /\ r.filename = filename)
    IN  IF rows = <<>> THEN None ELSE rows[1].metadata

Readback(username, filename) ==
    IF Metadata(username, filename) = None THEN None
    ELSE Concat(Fetch(Metadata(username, filename), 1))

\* C39: what a principal is answered and reads back does not depend on what
\* another principal does: a put or a remove of one principal, also for a file
\* name the other has, leaves the other's listing, metadata and read-back
\* bytes as they were.
C39_OtherPrincipalChangesNothing ==
    [][\A u \in GUsers, f \in GNames :
          ((\E d \in GContents : GrpcPutFile(u, f, d)) \/ GrpcRemoveFile(u, f)) =>
              \A v \in GUsers \ {u} :
                  /\ Listing(v)' = Listing(v)
                  /\ \A g \in GNames : /\ Metadata(v, g)' = Metadata(v, g)
                                       /\ Readback(v, g)' = Readback(v, g)]_vars

====
